---- MODULE Spec2Model ----
(***************************************************************************)
(* Model of support/analyze_dependencies.py: the DependencyAnalyzer that   *)
(* scans Agda source files into a module graph (scan_modules), ranks the   *)
(* modules (find_foundational_modules, find_hub_modules) and computes the  *)
(* dependency chain length of every module (calculate_dependency_chains,   *)
(* analyze_dependency_patterns).                                           *)
(*                                                                         *)
(* Module names are the integers 1..NumNames; their order is the order of  *)
(* the names as strings.  0 is the empty name "" that                      *)
(* _filepath_to_module_name yields for a file called ".agda", and          *)
(* NumNames + 1 is a name that import lines mention but no file defines.   *)
(* Python dicts keep insertion order, so a dict is a sequence of entries.  *)
(***************************************************************************)
EXTENDS Integers, Sequences, FiniteSets, TLC

\* ---------------------------------------------------------------- bounds
NumNames == 3
MaxFiles == 3
MaxLimit == 2
MaxImports == 3

\* ------------------------------------------------------ program constants
ShallowMax == 5
MediumMax == 15

\* ---------------------------------------------------------------- inputs
Stems == 0..NumNames
ImportNames == 1..(NumNames + 1)
Texts == {t \in SUBSET ImportNames : Cardinality(t) <= MaxImports}
Limits == 0..MaxLimit
\* dfs calls that may be open at once before the next call is refused; the
\* traversal of a graph of NumNames modules never has more than NumNames open
MaxStack == NumNames

VARIABLES pc, nfiles, modules, reverse_deps, stderr,
          chain_lengths, path, stack, driveIdx, result

vars == <<pc, nfiles, modules, reverse_deps, stderr,
          chain_lengths, path, stack, driveIdx, result>>

\* ---------------------------------------------------------------- helpers
Max(a, b) == IF a >= b THEN a ELSE b
Min(a, b) == IF a <= b THEN a ELSE b

\* keys of a dict held as a sequence of records with a name field
Keys(d) == {d[k].name : k \in 1..Len(d)}
IndexOf(d, n) == CHOOSE k \in 1..Len(d) : d[k].name = n
Get(d, n) == d[IndexOf(d, n)]

\* d[n] = v on an insertion-ordered dict: an existing key keeps its place
DictSet(d, v) ==
    IF v.name \in Keys(d)
    THEN [d EXCEPT ![IndexOf(d, v.name)] = v]
    ELSE Append(d, v)

\* seq[:limit] for limit >= 0
Take(s, limit) == SubSeq(s, 1, Min(limit, Len(s)))

\* _filepath_to_module_name: the suffix is cut off, the stem is the name
FilepathToModuleName(f) == f.stem

\* _parse_imports: the import set of the text, or nothing when the read raised
ParseImports(text, ok) == IF ok THEN text ELSE {}

\* ------------------------------------------------------------------ Init
Init ==
    /\ pc = "scan"
    /\ nfiles = 0
    /\ modules = <<>>
    /\ reverse_deps = <<>>
    /\ stderr = {}
    /\ chain_lengths = <<>>
    /\ path = {}
    /\ stack = <<>>
    /\ driveIdx = 1
    /\ result = [op |-> "none"]

\* --------------------------------------------------------- scan_modules
\* The k-th path of agda_files is the pair of its position k and the stem
\* left once the suffix is cut off; distinct paths may share a stem
\* ("A/B.agda", "A.B.agda" and "A/B.lagda.md" all name A.B).
File(k, stem) == [id |-> k, stem |-> stem]

\* one iteration of the loop over agda_files whose name is empty: skipped
ScanSkip ==
    /\ pc = "scan"
    /\ nfiles < MaxFiles
    /\ \E stem \in Stems :
        /\ FilepathToModuleName(File(nfiles + 1, stem)) = 0
        /\ nfiles' = nfiles + 1
    /\ UNCHANGED <<pc, modules, reverse_deps, stderr, chain_lengths, path,
                   stack, driveIdx, result>>

\* one iteration of the loop over agda_files: parse and insert the module
ScanFile ==
    /\ pc = "scan"
    /\ nfiles < MaxFiles
    /\ \E stem \in Stems, text \in Texts, ok \in BOOLEAN :
        LET f == File(nfiles + 1, stem) IN
        /\ FilepathToModuleName(f) # 0
        /\ ~ok => text = {}
        /\ nfiles' = nfiles + 1
        /\ modules' = DictSet(modules,
                              [name |-> FilepathToModuleName(f),
                               filepath |-> f.id,
                               imports |-> ParseImports(text, ok)])
        /\ stderr' = IF ok THEN stderr ELSE stderr \cup {f.id}
    /\ UNCHANGED <<pc, reverse_deps, chain_lengths, path, stack, driveIdx,
                   result>>

\* reverse_deps after the loop over modules.items(): a defaultdict, so a key
\* appears for every imported name
ReverseKeys(mods) == UNION {mods[k].imports : k \in 1..Len(mods)}
\* slip: the edge is filed under the importer instead of the imported name
BuildReverseDeps_Forward(mods) ==
    [n \in Keys(mods) |-> Get(mods, n).imports]

BuildReverseDeps(mods) ==
    [i \in ReverseKeys(mods) |->
        {mods[k].name : k \in {j \in 1..Len(mods) : i \in mods[j].imports}}]

\* the end of the file loop and the reverse dependency pass
ScanFinish ==
    /\ pc = "scan"
    /\ reverse_deps' = BuildReverseDeps(modules)
    /\ pc' = "ready"
    /\ UNCHANGED <<nfiles, modules, stderr, chain_lengths, path, stack,
                   driveIdx, result>>

\* reverse_deps.get(name, set())
ReverseGet(name) ==
    IF name \in DOMAIN reverse_deps THEN reverse_deps[name] ELSE {}

\* ------------------------------------------------------------- rankings
\* list.sort(key=lambda x: x[1], reverse=...) is stable: x goes behind every
\* entry that does not sort strictly after it
SortsBefore(x, y, reverse) == IF reverse THEN x[2] > y[2] ELSE x[2] < y[2]

\* the place of s[k] in the sorted list: behind the entries that sort before
\* it and the equal ones that stood before it
SortedPlace(s, k, reverse) ==
    1 + Cardinality({j \in 1..Len(s) :
                        \/ SortsBefore(s[j], s[k], reverse)
                        \/ ~SortsBefore(s[k], s[j], reverse) /\ j < k})

SortedByCount(s, reverse) ==
    [p \in 1..Len(s) |-> s[CHOOSE k \in 1..Len(s) : SortedPlace(s, k, reverse) = p]]

\* len([imp for imp in module.imports if imp in self.modules])
InternalImports(m) == Cardinality(m.imports \cap Keys(modules))

FoundationalModules(limit) ==
    Take(SortedByCount([k \in 1..Len(modules) |->
                            <<modules[k].name, InternalImports(modules[k])>>],
                       FALSE),
         limit)

\* slip: reverse=True left out
HubOrder_Ascending(s) == SortedByCount(s, FALSE)

\* modules_by_dependent_count.sort(key=lambda x: x[1], reverse=True)
HubOrder(s) == SortedByCount(s, TRUE)

HubModules(limit) ==
    Take(HubOrder([k \in 1..Len(modules) |->
                      <<modules[k].name, Cardinality(ReverseGet(modules[k].name))>>]),
         limit)

FindFoundationalModules ==
    /\ pc = "ready"
    /\ \E limit \in Limits :
        result' = [op |-> "foundational", limit |-> limit,
                   list |-> FoundationalModules(limit)]
    /\ pc' = "returned"
    /\ UNCHANGED <<nfiles, modules, reverse_deps, stderr, chain_lengths, path,
                   stack, driveIdx>>

FindHubModules ==
    /\ pc = "ready"
    /\ \E limit \in Limits :
        result' = [op |-> "hubs", limit |-> limit, list |-> HubModules(limit)]
    /\ pc' = "returned"
    /\ UNCHANGED <<nfiles, modules, reverse_deps, stderr, chain_lengths, path,
                   stack, driveIdx>>

\* -------------------------------------------- calculate_dependency_chains
\* chain_lengths is a dict from name to depth, in the order of finalization
Finalized == Keys(chain_lengths)
ChainLength(n) == Get(chain_lengths, n).depth

\* slip: the cycle check left out
OnPath_Never(n, p) == FALSE

\* "if module_name in path": the module is an ancestor on the traversal stack
OnPath(n, p) == n \in p

\* what a reference to a module on the path returns
CycleDepth == 0

\* slip: the last import wins instead of the deepest
NextMaxDepth_Last(max_depth, depth) == depth + 1

\* slip: the edge to the import is not counted
NextMaxDepth_NoEdge(max_depth, depth) == Max(max_depth, depth)

\* max_depth = max(max_depth, depth + 1)
NextMaxDepth(max_depth, depth) == Max(max_depth, depth + 1)

Frame(n) == [name |-> n, todo |-> Get(modules, n).imports, max_depth |-> 0]
Top == stack[Len(stack)]
SetTop(f) == [stack EXCEPT ![Len(stack)] = f]

\* analyze_dependency_patterns calls calculate_dependency_chains
StartChains ==
    /\ pc = "ready"
    /\ pc' = "dfs"
    /\ chain_lengths' = <<>>
    /\ path' = {}
    /\ stack' = <<>>
    /\ driveIdx' = 1
    /\ UNCHANGED <<nfiles, modules, reverse_deps, stderr, result>>

\* one iteration of "for module_name in self.modules" (no dfs call running)
Drive ==
    /\ pc = "dfs"
    /\ stack = <<>>
    /\ driveIdx <= Len(modules)
    /\ driveIdx' = driveIdx + 1
    /\ LET n == modules[driveIdx].name IN
        IF n \in Finalized
        THEN UNCHANGED <<stack, path>>
        ELSE /\ stack' = <<Frame(n)>>
             /\ path' = {n}
    /\ UNCHANGED <<pc, nfiles, modules, reverse_deps, stderr, chain_lengths,
                   result>>

\* one iteration of "for imported in module.imports" in the running dfs call;
\* a set is iterated in an order the program does not choose
Visit ==
    /\ pc = "dfs"
    /\ stack # <<>>
    /\ Len(stack) <= MaxStack
    /\ \E imported \in Top.todo :
        LET rest == [Top EXCEPT !.todo = @ \ {imported}] IN
        IF imported \notin Keys(modules)
        THEN /\ stack' = SetTop(rest)
             /\ UNCHANGED path
        ELSE IF imported \in Finalized
        THEN /\ stack' = SetTop([rest EXCEPT !.max_depth =
                                   NextMaxDepth(@, ChainLength(imported))])
             /\ UNCHANGED path
        ELSE IF OnPath(imported, path)
        THEN /\ stack' = SetTop([rest EXCEPT !.max_depth =
                                   NextMaxDepth(@, CycleDepth)])
             /\ UNCHANGED path
        ELSE /\ stack' = Append(SetTop(rest), Frame(imported))
             /\ path' = path \cup {imported}
    /\ UNCHANGED <<pc, nfiles, modules, reverse_deps, stderr, chain_lengths,
                   driveIdx, result>>

\* slip: the module itself is counted as an edge
FinalDepth_PlusOne(frame) == frame.max_depth + 1

\* the depth a finished dfs call stores and returns
FinalDepth(frame) == frame.max_depth

\* the end of a dfs call: leave the path, finalize, hand the depth to the caller
Return ==
    /\ pc = "dfs"
    /\ stack # <<>>
    /\ Top.todo = {}
    /\ LET d == FinalDepth(Top)
           callers == SubSeq(stack, 1, Len(stack) - 1)
       IN /\ path' = path \ {Top.name}
          /\ chain_lengths' = DictSet(chain_lengths, [name |-> Top.name, depth |-> d])
          /\ stack' = IF callers = <<>> THEN callers
                      ELSE [callers EXCEPT ![Len(callers)].max_depth =
                                NextMaxDepth(@, d)]
    /\ UNCHANGED <<pc, nfiles, modules, reverse_deps, stderr, driveIdx, result>>

\* ------------------------------------------- analyze_dependency_patterns
\* chain_lengths.items()
Items == [k \in 1..Len(chain_lengths) |->
            <<chain_lengths[k].name, chain_lengths[k].depth>>]

IsShallow(x) == x[2] <= ShallowMax
IsMedium(x) == ~IsShallow(x) /\ x[2] <= MediumMax
IsDeep(x) == ~IsShallow(x) /\ ~IsMedium(x)

RECURSIVE SumDepths(_)
SumDepths(k) == IF k = 0 THEN 0 ELSE chain_lengths[k].depth + SumDepths(k - 1)

MaxChain == IF chain_lengths = <<>> THEN 0
            ELSE CHOOSE d \in {chain_lengths[k].depth : k \in 1..Len(chain_lengths)} :
                    \A k \in 1..Len(chain_lengths) : chain_lengths[k].depth <= d

\* avg_depth is the pair of the sum and the count it is the quotient of
Patterns ==
    [op |-> "patterns",
     shallow |-> SortedByCount(SelectSeq(Items, IsShallow), FALSE),
     medium |-> SortedByCount(SelectSeq(Items, IsMedium), FALSE),
     deep |-> SortedByCount(SelectSeq(Items, IsDeep), TRUE),
     max_depth |-> MaxChain,
     avg_depth |-> <<SumDepths(Len(chain_lengths)), Len(chain_lengths)>>]

\* the outer loop is over: calculate_dependency_chains returns and
\* analyze_dependency_patterns builds its result
AnalyzePatterns ==
    /\ pc = "dfs"
    /\ stack = <<>>
    /\ driveIdx > Len(modules)
    /\ result' = Patterns
    /\ pc' = "returned"
    /\ UNCHANGED <<nfiles, modules, reverse_deps, stderr, chain_lengths, path,
                   stack, driveIdx>>

\* ------------------------------------------------------ the graph, as data
Known == Keys(modules)
Imports(n) == Get(modules, n).imports
Resolvable(n) == Imports(n) \cap Known
Position(n) == IndexOf(modules, n)
DependentCount(n) == Cardinality(ReverseGet(n))

\* directed paths over resolvable imports that visit no module twice
SimplePaths ==
    {p \in UNION {[1..n -> Known] : n \in 1..Cardinality(Known)} :
        /\ \A a, b \in 1..Len(p) : a # b => p[a] # p[b]
        /\ \A a \in 1..(Len(p) - 1) : p[a + 1] \in Resolvable(p[a])}
Closes(p) == p[1] \in Resolvable(p[Len(p)])
OnCycle(n) == \E p \in SimplePaths : p[1] = n /\ Closes(p)
ReachesCycle(n) == \E p \in SimplePaths : p[1] = n /\ OnCycle(p[Len(p)])
Acyclic == \A n \in Known : ~OnCycle(n)
LongestFrom(n) ==
    LET lens == {Len(p) - 1 : p \in {q \in SimplePaths : q[1] = n}}
    IN CHOOSE l \in lens : \A k \in lens : k <= l

Scanned == pc # "scan"
ChainsDone == pc = "returned" /\ result.op = "patterns"
HubsDone == pc = "returned" /\ result.op = "hubs"

\* The run of calculate_dependency_chains that drives the modules in name
\* order and iterates every import set in name order.
RECURSIVE RefDfs(_, _, _), RefLoop(_, _, _, _)
RefDfs(n, p, cl) ==
    IF n \in DOMAIN cl THEN [depth |-> cl[n], cl |-> cl]
    ELSE IF n \notin Known THEN [depth |-> 0, cl |-> cl]
    ELSE IF OnPath(n, p) THEN [depth |-> CycleDepth, cl |-> cl]
    ELSE LET r == RefLoop(Imports(n), p \cup {n}, cl, 0)
         IN [depth |-> r.depth, cl |-> (n :> r.depth) @@ r.cl]
RefLoop(todo, p, cl, max_depth) ==
    IF todo = {} THEN [depth |-> max_depth, cl |-> cl]
    ELSE LET i == CHOOSE x \in todo : \A y \in todo : x <= y
         IN IF i \in Known
            THEN LET r == RefDfs(i, p, cl)
                 IN RefLoop(todo \ {i}, p, r.cl, NextMaxDepth(max_depth, r.depth))
            ELSE RefLoop(todo \ {i}, p, cl, max_depth)

RECURSIVE RefDrive(_, _)
RefDrive(todo, cl) ==
    IF todo = {} THEN cl
    ELSE LET n == CHOOSE x \in todo : \A y \in todo : x <= y
         IN RefDrive(todo \ {n}, RefDfs(n, {}, cl).cl)
RefChainLengths == RefDrive(Known, <<>>)

Next ==
    \/ ScanSkip
    \/ ScanFile
    \/ ScanFinish
    \/ FindFoundationalModules
    \/ FindHubModules
    \/ StartChains
    \/ Drive
    \/ Visit
    \/ Return
    \/ AnalyzePatterns

Spec == Init /\ [][Next]_vars

\* the steps of a running analyze_dependency_patterns call
ChainsStep == Drive \/ Visit \/ Return \/ AnalyzePatterns

\* the interpreter runs a started call to its end
FairSpec == Spec /\ WF_vars(ChainsStep)

\* -------------------------------------------------------------- properties
MaxOf(S) == CHOOSE d \in S : \A e \in S : e <= d

\* C1: once calculate_dependency_chains has run, a module whose only
\* resolvable import is itself, or is the other half of a 2-cycle that imports
\* only it, has depth 0.
C1_CyclesDefusedToZero ==
    ChainsDone =>
        \A m \in Known :
            (\/ Resolvable(m) = {m}
             \/ \E b \in Known \ {m} : Resolvable(m) = {b} /\ Resolvable(b) = {m})
            => ChainLength(m) = 0

\* C2: on an acyclic graph the finalized depth of every module is the length
\* of the longest path of resolvable imports that starts at it, whatever the
\* discovery order and the order in which import sets are iterated.
C2_DepthIsLongestPath ==
    (ChainsDone /\ Acyclic) =>
        \A m \in Known : ChainLength(m) = LongestFrom(m)

C2_Witness ==
    /\ ChainsDone
    /\ Acyclic
    /\ \E m \in Known :
        /\ ChainLength(m) = 2
        /\ Imports(m) \ Known # {}
        /\ Position(m) > 1

\* C3: on every graph a started calculate_dependency_chains returns; while it
\* runs it never has more dfs calls open than there are modules, each of
\* them for a different module; and the map it returns has a depth >= 0 for
\* every known module and for no other name.
C3_TerminatesComplete ==
    /\ (pc = "dfs") ~> ChainsDone
    /\ [](/\ Len(stack) <= Len(modules)
          /\ \A a, b \in 1..Len(stack) : a # b => stack[a].name # stack[b].name)
    /\ [](ChainsDone =>
            /\ Finalized = Known
            /\ \A k \in 1..Len(chain_lengths) : chain_lengths[k].depth >= 0)

C3_Witness ==
    /\ ChainsDone
    /\ \E m \in Known : OnCycle(m) /\ m \notin Resolvable(m)
    /\ \E m \in Known : m \in Resolvable(m)
    /\ \E m \in Known : Imports(m) \ Known # {}

\* C4: after scan_modules an import of a name that is no key of modules
\* leaves no reverse edge: the importer is in no reverse_deps entry for that
\* name, and the dependent count of the unknown name is 0.
C4_UnknownImportNoReverseEdge ==
    Scanned =>
        \A m \in Known : \A i \in Imports(m) \ Known :
            /\ m \notin ReverseGet(i)
            /\ DependentCount(i) = 0

\* C5: after scan_modules, overwrites included, reverse_deps holds exactly the
\* resolvable import edges of the current modules, reversed: every importer of
\* a known module is listed under it, and every listed name is a current
\* module that imports the key.
C5_ReverseDepsExact ==
    Scanned =>
        /\ \A m \in Known : \A i \in Resolvable(m) : m \in ReverseGet(i)
        /\ \A i \in DOMAIN reverse_deps : \A n \in reverse_deps[i] :
                n \in Known /\ i \in Imports(n)

C5_Witness ==
    /\ Scanned
    /\ \E k, j \in 1..Len(modules) :
        /\ k < j
        /\ modules[k].filepath > modules[j].filepath
        /\ modules[j].name \in modules[k].imports
        /\ modules[k].name \in ReverseGet(modules[j].name)

\* C6: a source file whose read failed is left out of the graph: after
\* scan_modules no module built from that file is in modules.
C6_FailedUnitExcluded ==
    Scanned =>
        \A f \in stderr : \A k \in 1..Len(modules) : modules[k].filepath # f

\* find_hub_modules returns min(limit, N) entries, by descending dependent
\* count, entries of equal count in discovery order
HubsOrdered ==
    /\ Len(result.list) = Min(result.limit, Len(modules))
    /\ \A a, b \in 1..Len(result.list) :
        a < b =>
            \/ result.list[a][2] > result.list[b][2]
            \/ /\ result.list[a][2] = result.list[b][2]
               /\ Position(result.list[a][1]) < Position(result.list[b][1])
ImportedByAllOthers(x) == \A n \in Known \ {x} : x \in Imports(n)

\* C7 as stated: with at least two modules and limit >= 1, a module imported
\* by every other module is the first entry of find_hub_modules, with count
\* N - 1, and the entries are ordered.
C7_HubFirst ==
    (HubsDone /\ Len(modules) >= 2 /\ result.limit >= 1) =>
        /\ HubsOrdered
        /\ \A x \in Known :
            ImportedByAllOthers(x) => result.list[1] = <<x, Len(modules) - 1>>

\* C7 amended: a module imported by every other module and not by itself has
\* N - 1 dependents, and is the first entry when no module has more
\* dependents and none discovered before it has as many; the entries are
\* always ordered.
C7_HubFirstUnlessOutranked ==
    (HubsDone /\ Len(modules) >= 2 /\ result.limit >= 1) =>
        /\ HubsOrdered
        /\ \A x \in Known :
            (ImportedByAllOthers(x) /\ x \notin Imports(x)) =>
                /\ DependentCount(x) = Len(modules) - 1
                /\ (\A y \in Known \ {x} :
                        \/ DependentCount(y) < DependentCount(x)
                        \/ /\ DependentCount(y) = DependentCount(x)
                           /\ Position(y) > Position(x))
                   => result.list[1] = <<x, Len(modules) - 1>>

C7_Witness ==
    /\ HubsDone
    /\ Len(modules) = 3
    /\ result.limit = 2
    /\ \E x \in Known :
        /\ ImportedByAllOthers(x)
        /\ x \notin Imports(x)
        /\ Position(x) = 3
        /\ result.list[1] = <<x, 2>>
        /\ result.list[2][2] = 0

TierOrdered(l, descending) ==
    \A a, b \in 1..Len(l) :
        a < b =>
            \/ IF descending THEN l[a][2] > l[b][2] ELSE l[a][2] < l[b][2]
            \/ l[a][2] = l[b][2] /\ l[a][1] < l[b][1]

\* C8: every tier of analyze_dependency_patterns is ordered by depth
\* (shallow and medium ascending, deep descending) and, within one depth, by
\* module name.
C8_TiersByDepthThenName ==
    ChainsDone =>
        /\ TierOrdered(result.shallow, FALSE)
        /\ TierOrdered(result.medium, FALSE)
        /\ TierOrdered(result.deep, TRUE)

\* C9 as stated: on every graph the finalized depths are those of any other
\* run over the same graph, here the run in name order.
C9_OrderIndependent ==
    ChainsDone =>
        \A m \in Known : ChainLength(m) = RefChainLengths[m]

\* C9 amended: the finalized depth of every module from which no import cycle
\* can be reached is the same in every run over the same graph, whatever the
\* driving order and the iteration order of import sets.
C9_OrderIndependentOffCycles ==
    ChainsDone =>
        \A m \in Known : ~ReachesCycle(m) => ChainLength(m) = RefChainLengths[m]

C9_Witness ==
    /\ ChainsDone
    /\ Len(modules) = 3
    /\ modules[1].name > modules[2].name
    /\ \E m \in Known :
        /\ ~ReachesCycle(m)
        /\ ChainLength(m) = 2
        /\ Cardinality(Resolvable(m)) = 2

\* C10 as stated: on every graph a module with a resolvable import has depth
\* 1 + the greatest finalized depth among its resolvable imports, and a
\* module without one has depth 0.
C10_DepthRecurrence ==
    ChainsDone =>
        \A m \in Known :
            ChainLength(m) =
                IF Resolvable(m) = {} THEN 0
                ELSE 1 + MaxOf({ChainLength(i) : i \in Resolvable(m)})

\* C10 amended: a module without a resolvable import has depth 0; a module
\* with one has a depth between 1 and 1 + the greatest finalized depth among
\* its resolvable imports, and exactly that sum when it lies on no import
\* cycle.
C10_DepthRecurrenceOffCycles ==
    ChainsDone =>
        \A m \in Known :
            IF Resolvable(m) = {} THEN ChainLength(m) = 0
            ELSE LET top == 1 + MaxOf({ChainLength(i) : i \in Resolvable(m)})
                 IN /\ ChainLength(m) >= 1
                    /\ ChainLength(m) <= top
                    /\ ~OnCycle(m) => ChainLength(m) = top

C10_Witness ==
    /\ ChainsDone
    /\ \E m \in Known :
        /\ ~OnCycle(m)
        /\ ReachesCycle(m)
        /\ Cardinality(Resolvable(m)) = 2
        /\ \E i, j \in Resolvable(m) : ChainLength(i) < ChainLength(j)
        /\ ChainLength(m) = 3
====
